---- MODULE Spec2Model ----
(***************************************************************************)
(* The /ask pipeline of the sales-query service: code generation           *)
(* (openai_service.py), the textual safety check and the restricted        *)
(* execution of the generated pandas code (app.py).                        *)
(*                                                                         *)
(* Text (queries, generated code, regex patterns) is a sequence of         *)
(* one-character strings, so that substring search, case folding and the   *)
(* regular expressions are computed character by character.                *)
(***************************************************************************)
EXTENDS Integers, Sequences, FiniteSets, TLC

VARIABLES configured, sales_data, loaded, pc, request, query, code, error,
          remote, safe, namespace, executed, raised, result, exec_error,
          response

vars == <<configured, sales_data, loaded, pc, request, query, code, error,
          remote, safe, namespace, executed, raised, result, exec_error,
          response>>

-----------------------------------------------------------------------------
(* Text primitives *)

\* Python's None, and a value that is not None
None == [none |-> TRUE]
Some(v) == [none |-> FALSE, val |-> v]

UpperLetters == <<"A","B","C","D","E","F","G","H","I","J","K","L","M","N","O","P","Q","R","S","T","U","V","W","X","Y","Z">>
LowerLetters == <<"a","b","c","d","e","f","g","h","i","j","k","l","m","n","o","p","q","r","s","t","u","v","w","x","y","z">>

\* upper-case letter -> lower-case letter
LowerOf == [i \in 1..Len(UpperLetters) |-> <<UpperLetters[i], LowerLetters[i]>>]
UpperSet == {UpperLetters[i] : i \in 1..Len(UpperLetters)}

\* str.lower() / re.IGNORECASE on one character
LowerChar(c) ==
    IF c \in UpperSet
    THEN LowerOf[CHOOSE i \in 1..Len(UpperLetters) : UpperLetters[i] = c][2]
    ELSE c

Lower(s) == SubSeq([i \in 1..Len(s) |-> LowerChar(s[i])], 1, Len(s))

\* the characters matched by \s and removed by str.strip()
Whitespace == {" ", "\t", "\n"}

\* s[i:i+len(w)] == w
OccursAt(w, s, i) ==
    /\ i + Len(w) - 1 <= Len(s)
    /\ \A j \in 1..Len(w) : s[i + j - 1] = w[j]

\* the Python operator  w in s
Contains(s, w) ==
    \E i \in 1..(Len(s) - Len(w) + 1) : \A j \in 1..Len(w) : s[i + j - 1] = w[j]

\* str.strip()
Strip(s) ==
    IF \A i \in 1..Len(s) : s[i] \in Whitespace THEN <<>>
    ELSE LET first == CHOOSE i \in 1..Len(s) :
                          /\ s[i] \notin Whitespace
                          /\ \A j \in 1..(i - 1) : s[j] \in Whitespace
             last  == CHOOSE i \in 1..Len(s) :
                          /\ s[i] \notin Whitespace
                          /\ \A j \in (i + 1)..Len(s) : s[j] \in Whitespace
         IN  SubSeq(s, first, last)

-----------------------------------------------------------------------------
(* app.py: is_safe_code *)

\* the modules named by the negative lookahead (?!pandas|numpy|datetime)
allowed_modules == << <<"p","a","n","d","a","s">>, <<"n","u","m","p","y">>, <<"d","a","t","e","t","i","m","e">> >>

\* a regular expression of the list: a literal, optionally followed by \s+
\* and the negative lookahead ("lookahead"), or by \s*\( ("call")
Pat(lit, tail) == [lit |-> lit, tail |-> tail]

\* the list without the pattern for open(
dangerous_patterns_without_open == <<
    Pat(<<"i","m","p","o","r","t">>, "lookahead"),
    Pat(<<"f","r","o","m">>, "lookahead"),
    Pat(<<"e","x","e","c">>, "call"),
    Pat(<<"e","v","a","l">>, "call"),
    Pat(<<"_","_","i","m","p","o","r","t","_","_">>, "none"),
    Pat(<<"g","e","t","a","t","t","r">>, "none"),
    Pat(<<"s","e","t","a","t","t","r">>, "none"),
    Pat(<<"d","e","l","a","t","t","r">>, "none"),
    Pat(<<"g","l","o","b","a","l","s">>, "call"),
    Pat(<<"l","o","c","a","l","s">>, "call"),
    Pat(<<"d","i","r">>, "call"),
    Pat(<<"v","a","r","s">>, "call"),
    Pat(<<".","s","y","s","t","e","m">>, "none"),
    Pat(<<"o","s",".">>, "none"),
    Pat(<<"s","u","b","p","r","o","c","e","s","s">>, "none"),
    Pat(<<"s","h","u","t","i","l">>, "none"),
    Pat(<<"p","i","c","k","l","e">>, "none") >>

\* dangerous_patterns, in list order
dangerous_patterns == <<
    Pat(<<"i","m","p","o","r","t">>, "lookahead"),
    Pat(<<"f","r","o","m">>, "lookahead"),
    Pat(<<"o","p","e","n">>, "call"),
    Pat(<<"e","x","e","c">>, "call"),
    Pat(<<"e","v","a","l">>, "call"),
    Pat(<<"_","_","i","m","p","o","r","t","_","_">>, "none"),
    Pat(<<"g","e","t","a","t","t","r">>, "none"),
    Pat(<<"s","e","t","a","t","t","r">>, "none"),
    Pat(<<"d","e","l","a","t","t","r">>, "none"),
    Pat(<<"g","l","o","b","a","l","s">>, "call"),
    Pat(<<"l","o","c","a","l","s">>, "call"),
    Pat(<<"d","i","r">>, "call"),
    Pat(<<"v","a","r","s">>, "call"),
    Pat(<<".","s","y","s","t","e","m">>, "none"),
    Pat(<<"o","s",".">>, "none"),
    Pat(<<"s","u","b","p","r","o","c","e","s","s">>, "none"),
    Pat(<<"s","h","u","t","i","l">>, "none"),
    Pat(<<"p","i","c","k","l","e">>, "none") >>

\* the characters low[p .. p+k-1] are all whitespace
WsRun(low, p, k) ==
    /\ p + k - 1 <= Len(low)
    /\ \A j \in 0..(k - 1) : low[p + j] \in Whitespace

\* the pattern matches the (case-folded) text starting at position i
MatchAt(pat, low, i) ==
    /\ OccursAt(pat.lit, low, i)
    /\ LET p == i + Len(pat.lit)
       IN  CASE pat.tail = "none" -> TRUE
             [] pat.tail = "call" ->
                  \E k \in 0..(Len(low) - p) :
                      /\ WsRun(low, p, k)
                      /\ low[p + k] = "("
             [] pat.tail = "lookahead" ->
                  \E k \in 1..(Len(low) - p + 1) :
                      /\ WsRun(low, p, k)
                      /\ \A m \in 1..Len(allowed_modules) :
                             ~OccursAt(allowed_modules[m], low, p + k)

\* re.search(pattern, code, re.IGNORECASE)
re_search(pat, text) ==
    LET low == Lower(text)
    IN  \E i \in 1..Len(low) : MatchAt(pat, low, i)

\* the for loop of is_safe_code from the k-th pattern on
RECURSIVE safe_from(_, _)
safe_from(text, k) ==
    IF k > Len(dangerous_patterns) THEN TRUE
    ELSE IF re_search(dangerous_patterns[k], text) THEN FALSE
    ELSE safe_from(text, k + 1)

is_safe_code(text) == safe_from(text, 1)

-----------------------------------------------------------------------------
(* openai_service.py: parse_query_locally *)

Entry(keywords, text) == [keywords |-> keywords, code |-> text]

code_by_region == <<"r","e","s","u","l","t"," ","="," ","d","f",".","g","r","o","u","p","b","y","(","\"","r","e","g","i","o","n","\"",")","[","\"","s","a","l","e","s","\"","]",".","s","u","m","(",")",".","r","e","s","e","t","_","i","n","d","e","x","(",")">>
code_by_month  == <<"r","e","s","u","l","t"," ","="," ","d","f",".","g","r","o","u","p","b","y","(","d","f","[","\"","d","a","t","e","\"","]",".","d","t",".","t","o","_","p","e","r","i","o","d","(","\"","M","\"",")",")","[","\"","s","a","l","e","s","\"","]",".","s","u","m","(",")",".","r","e","s","e","t","_","i","n","d","e","x","(",")","\n","r","e","s","u","l","t","[","\"","d","a","t","e","\"","]"," ","="," ","r","e","s","u","l","t","[","\"","d","a","t","e","\"","]",".","a","s","t","y","p","e","(","s","t","r",")">>
code_avg_region == <<"r","e","s","u","l","t"," ","="," ","d","f",".","g","r","o","u","p","b","y","(","\"","r","e","g","i","o","n","\"",")","[","\"","s","a","l","e","s","\"","]",".","m","e","a","n","(",")",".","r","e","s","e","t","_","i","n","d","e","x","(",")">>
code_top       == <<"r","e","s","u","l","t"," ","="," ","d","f",".","n","l","a","r","g","e","s","t","(","1","0",","," ","\"","s","a","l","e","s","\"",")","[","[","\"","d","a","t","e","\"",","," ","\"","r","e","g","i","o","n","\"",","," ","\"","s","a","l","e","s","\"","]","]">>
code_july      == <<"r","e","s","u","l","t"," ","="," ","d","f","[","d","f","[","\"","d","a","t","e","\"","]",".","d","t",".","m","o","n","t","h"," ","=","="," ","7","]">>
code_2023      == <<"r","e","s","u","l","t"," ","="," ","d","f","[","d","f","[","\"","d","a","t","e","\"","]",".","d","t",".","y","e","a","r"," ","=","="," ","2","0","2","3","]">>
code_total     == <<"r","e","s","u","l","t"," ","="," ","d","f","[","\"","s","a","l","e","s","\"","]",".","s","u","m","(",")">>
code_count     == <<"r","e","s","u","l","t"," ","="," ","l","e","n","(","d","f",")">>
code_avg_daily == <<"r","e","s","u","l","t"," ","="," ","d","f",".","g","r","o","u","p","b","y","(","\"","d","a","t","e","\"",")","[","\"","s","a","l","e","s","\"","]",".","s","u","m","(",")",".","m","e","a","n","(",")">>
code_default   == <<"r","e","s","u","l","t"," ","="," ","d","f",".","h","e","a","d","(","1","0",")">>

\* the catalog, in list order
patterns == <<
    Entry(<< <<"s","a","l","e","s">>, <<"b","y">>, <<"r","e","g","i","o","n">> >>, code_by_region),
    Entry(<< <<"s","a","l","e","s">>, <<"m","o","n","t","h">>, <<"b","y">> >>, code_by_month),
    Entry(<< <<"a","v","e","r","a","g","e">>, <<"s","a","l","e","s">>, <<"r","e","g","i","o","n">> >>, code_avg_region),
    Entry(<< <<"t","o","p">>, <<"h","i","g","h","e","s","t">>, <<"s","a","l","e","s">> >>, code_top),
    Entry(<< <<"s","a","l","e","s">>, <<"j","u","l","y">> >>, code_july),
    Entry(<< <<"s","a","l","e","s">>, <<"2","0","2","3">> >>, code_2023),
    Entry(<< <<"t","o","t","a","l">>, <<"s","a","l","e","s">> >>, code_total),
    Entry(<< <<"t","r","e","n","d">>, <<"s","a","l","e","s">> >>, code_by_month),
    Entry(<< <<"c","o","u","n","t">>, <<"r","e","c","o","r","d","s">> >>, code_count),
    Entry(<< <<"a","v","e","r","a","g","e">>, <<"d","a","i","l","y">>, <<"s","a","l","e","s">> >>, code_avg_daily) >>

\* sum(1 for keyword in pattern['keywords'] if keyword in query_lower)
matches(pattern, query_lower) ==
    Cardinality({j \in 1..Len(pattern.keywords) :
                     Contains(query_lower, pattern.keywords[j])})

\* a test that lets a later entry with an equal count replace best_match
better_or_equal(m, max_matches) == m >= max_matches /\ m > 0

\* the test that replaces best_match
better(m, max_matches) == m > max_matches /\ m > 0

\* the for loop over the catalog from entry k on; best_match is an index
\* into the catalog, 0 for None
RECURSIVE best_from(_, _, _, _)
best_from(query_lower, k, best_match, max_matches) ==
    IF k > Len(patterns) THEN best_match
    ELSE LET m == matches(patterns[k], query_lower)
         IN  IF better(m, max_matches)
             THEN best_from(query_lower, k + 1, k, m)
             ELSE best_from(query_lower, k + 1, best_match, max_matches)

\* the translator without query.lower()
parse_query_locally_no_lower(q) ==
    LET query_lower == Strip(q)
        best_match  == best_from(query_lower, 1, 0, 0)
    IN  IF best_match # 0
        THEN [code |-> Some(patterns[best_match].code), error |-> None]
        ELSE [code |-> Some(code_default), error |-> None]

\* returns the pair (code, error)
parse_query_locally(q) ==
    LET query_lower == Strip(Lower(q))
        best_match  == best_from(query_lower, 1, 0, 0)
    IN  IF best_match # 0
        THEN [code |-> Some(patterns[best_match].code), error |-> None]
        ELSE [code |-> Some(code_default), error |-> None]

-----------------------------------------------------------------------------
(* The dataset and the pandas values the generated code computes *)

\* cells of a frame
Num(n) == [k |-> "int64", n |-> n]
Txt(t) == [k |-> "str", s |-> t]
Date(y, m, d) == [k |-> "Timestamp", y |-> y, m |-> m, d |-> d]
Period(y, m) == [k |-> "Period", y |-> y, m |-> m]
Ratio(num, den) == [k |-> "float64", num |-> num, den |-> den]

Frame(columns, rows) == [t |-> "DataFrame", columns |-> columns, rows |-> rows]

\* sales.csv after pd.read_csv and pd.to_datetime of the date column
LoadedData ==
    Frame(<<"date", "region", "sales">>,
          << <<Date(2023, 7, 1), Txt("East"), Num(100)>>,
             <<Date(2023, 1, 15), Txt("West"), Num(50)>>,
             <<Date(2022, 7, 4), Txt("East"), Num(25)>> >>)

\* the order pandas sorts the region keys in
RegionOrder == <<"East", "West">>

\* position of a column label (the last one, should a label repeat)
ColIndex(f, c) ==
    CHOOSE i \in 1..Len(f.columns) :
        /\ f.columns[i] = c
        /\ \A j \in (i + 1)..Len(f.columns) : f.columns[j] # c

HasCol(f, c) == \E i \in 1..Len(f.columns) : f.columns[i] = c

RECURSIVE SumSeq(_)
SumSeq(ns) == IF ns = <<>> THEN 0 ELSE Head(ns) + SumSeq(Tail(ns))

\* the sales of the rows of f, in row order
SalesOf(f) == [i \in 1..Len(f.rows) |-> f.rows[i][ColIndex(f, "sales")].n]

\* ascending sequence of a finite set of integers
RECURSIVE Sorted(_)
Sorted(S) ==
    IF S = {} THEN <<>>
    ELSE LET lo == CHOOSE x \in S : \A y \in S : x <= y
         IN  <<lo>> \o Sorted(S \ {lo})

\* decimal digits of a natural number, as text
RECURSIVE Digits(_)
Digits(n) ==
    LET d == <<"0", "1", "2", "3", "4", "5", "6", "7", "8", "9">>
    IN  IF n < 10 THEN <<d[n + 1]>> ELSE Digits(n \div 10) \o <<d[(n % 10) + 1]>>

AggSum(ns) == Num(SumSeq(ns))
AggMean(ns) == Ratio(SumSeq(ns), Len(ns))

\* df.groupby("region")["sales"].sum().reset_index()  and its .mean() twin
GroupByRegion(f, agg) ==
    LET rc   == ColIndex(f, "region")
        keys == SelectSeq(RegionOrder,
                          LAMBDA r : \E i \in 1..Len(f.rows) : f.rows[i][rc].s = r)
        grp(r) == SalesOf(Frame(f.columns,
                                SelectSeq(f.rows, LAMBDA row : row[rc].s = r)))
    IN  Frame(<<"region", "sales">>,
              [i \in 1..Len(keys) |-> <<Txt(keys[i]),
                            IF agg = "sum" THEN AggSum(grp(keys[i]))
                            ELSE AggMean(grp(keys[i]))>>])

\* df.groupby(df["date"].dt.to_period("M"))["sales"].sum().reset_index()
GroupByMonth(f) ==
    LET dc   == ColIndex(f, "date")
        ym(row) == row[dc].y * 12 + (row[dc].m - 1)
        keys == Sorted({ym(f.rows[i]) : i \in 1..Len(f.rows)})
        grp(key) == SalesOf(Frame(f.columns,
                                  SelectSeq(f.rows, LAMBDA row : ym(row) = key)))
    IN  Frame(<<"date", "sales">>,
              [i \in 1..Len(keys) |->
                  <<Period(keys[i] \div 12, (keys[i] % 12) + 1),
                    Num(SumSeq(grp(keys[i])))>>])

\* str() of a monthly period, e.g. 2023-07
PeriodText(p) ==
    [k |-> "str",
     text |-> Digits(p.y) \o <<"-">> \o
              (IF p.m < 10 THEN <<"0">> ELSE <<>>) \o Digits(p.m)]

\* frame[col] = frame[col].astype(str)
AsTypeStr(f, c) ==
    LET ci == ColIndex(f, c)
    IN  Frame(f.columns,
              [i \in 1..Len(f.rows) |->
                  [j \in 1..Len(f.columns) |->
                      IF j = ci THEN PeriodText(f.rows[i][j])
                      ELSE f.rows[i][j]]])

\* frame[col] = scalar : overwrite the column, or append it when new
SetColumn(f, c, cell) ==
    IF HasCol(f, c)
    THEN Frame(f.columns,
               [i \in 1..Len(f.rows) |->
                   [j \in 1..Len(f.columns) |->
                       IF f.columns[j] = c THEN cell ELSE f.rows[i][j]]])
    ELSE Frame(Append(f.columns, c),
               [i \in 1..Len(f.rows) |-> Append(f.rows[i], cell)])

\* df.nlargest(n, "sales")[["date", "region", "sales"]]
RECURSIVE LargestFirst(_, _)
LargestFirst(rows, sc) ==
    IF rows = <<>> THEN <<>>
    ELSE LET top == CHOOSE i \in 1..Len(rows) :
                        /\ \A j \in 1..Len(rows) : rows[j][sc].n <= rows[i][sc].n
                        /\ \A j \in 1..(i - 1) : rows[j][sc].n < rows[i][sc].n
         IN  <<rows[top]>> \o
             LargestFirst([j \in 1..(Len(rows) - 1) |->
                              IF j < top THEN rows[j] ELSE rows[j + 1]], sc)

FirstN(rows, n) == SubSeq(rows, 1, IF Len(rows) < n THEN Len(rows) ELSE n)

NLargest(f, n, cols) ==
    LET ordered == FirstN(LargestFirst(f.rows, ColIndex(f, "sales")), n)
    IN  Frame(cols,
              [i \in 1..Len(ordered) |->
                  [j \in 1..Len(cols) |-> ordered[i][ColIndex(f, cols[j])]]])

-----------------------------------------------------------------------------
(* Python values and the statements of the generated code *)

\* the object the global sales_data names; df in the namespace is the same
\* object, not a copy
DatasetRef == [t |-> "DataFrame", ref |-> "sales_data"]

Series(index, values, name) ==
    [t |-> "Series", index |-> index, values |-> values, name |-> name]
PyInt(n) == [t |-> "int", n |-> n]
PyBool(b) == [t |-> "bool", b |-> b]
PyStr(text) == [t |-> "str", text |-> text]
PyNone == [t |-> "NoneType"]
NpInt(n) == [t |-> "numpy.int64", n |-> n]
NpFloat(num, den) == [t |-> "numpy.float64", num |-> num, den |-> den]
Module(name) == [t |-> "module", name |-> name]

IsRef(v) == "ref" \in DOMAIN v

\* the frame a DataFrame value denotes, data being the current sales_data
Deref(v, data) == IF IsRef(v) THEN data ELSE v

\* names of the builtins module (a sample of them)
builtin_names == {"len", "str", "open", "sorted", "__import__", "getattr"}

\* the names a piece of code can resolve in the globals dict ns
Resolvable(ns) ==
    DOMAIN ns \cup (IF "__builtins__" \in DOMAIN ns THEN builtin_names ELSE {})

Bind(ns, name, v) ==
    [n \in DOMAIN ns \cup {name} |-> IF n = name THEN v ELSE ns[n]]

Assign(target, expr, uses) ==
    [op |-> "assign", target |-> target, expr |-> expr, uses |-> uses]
SetCol(target, col, expr, uses) ==
    [op |-> "setcol", target |-> target, col |-> col, expr |-> expr, uses |-> uses]
DelCol(target, col, uses) ==
    [op |-> "delcol", target |-> target, col |-> col, uses |-> uses]
DropRows(target, uses) ==
    [op |-> "droprows", target |-> target, uses |-> uses]

Ok(v) == [ok |-> TRUE, val |-> v]
Raise(exc, arg) == [ok |-> FALSE, exc |-> exc, arg |-> arg]

\* the column labels an expression looks up in df
Needs(expr) ==
    CASE expr \in {"by_region_sum", "by_region_mean"} -> {"region", "sales"}
      [] expr \in {"by_month", "avg_daily"} -> {"date", "sales"}
      [] expr = "nlargest" -> {"date", "region", "sales"}
      [] expr \in {"july", "y2023"} -> {"date"}
      [] expr \in {"sum", "count", "series"} -> {"sales"}
      [] expr = "nosuch" -> {"nosuch"}
      [] OTHER -> {}

\* df.groupby("date")["sales"].sum().mean(): mean of the per-day totals
AvgDaily(f) ==
    LET dc   == ColIndex(f, "date")
        day(row) == (row[dc].y * 12 + (row[dc].m - 1)) * 31 + (row[dc].d - 1)
        keys == Sorted({day(f.rows[i]) : i \in 1..Len(f.rows)})
    IN  NpFloat(SumSeq(SalesOf(f)), Len(keys))

\* value of the right-hand side, or the exception it raises
Eval(expr, ns, data) ==
    LET f == Deref(ns["df"], data)
        missing == {c \in Needs(expr) : ~HasCol(f, c)}
    IN  IF missing # {} THEN Raise("KeyError", CHOOSE c \in missing : TRUE)
        ELSE CASE expr = "df" -> Ok(ns["df"])
               [] expr = "head" -> Ok(Frame(f.columns, FirstN(f.rows, 10)))
               [] expr = "by_region_sum" -> Ok(GroupByRegion(f, "sum"))
               [] expr = "by_region_mean" -> Ok(GroupByRegion(f, "mean"))
               [] expr = "by_month" -> Ok(GroupByMonth(f))
               [] expr = "nlargest" ->
                    Ok(NLargest(f, 10, <<"date", "region", "sales">>))
               [] expr = "july" ->
                    Ok(Frame(f.columns,
                             SelectSeq(f.rows, LAMBDA row : row[ColIndex(f, "date")].m = 7)))
               [] expr = "y2023" ->
                    Ok(Frame(f.columns,
                             SelectSeq(f.rows, LAMBDA row : row[ColIndex(f, "date")].y = 2023)))
               [] expr = "sum" -> Ok(NpInt(SumSeq(SalesOf(f))))
               [] expr = "count" -> Ok(NpInt(Len(f.rows)))
               [] expr = "len" -> Ok(PyInt(Len(f.rows)))
               [] expr = "avg_daily" ->
                    IF f.rows = <<>> THEN Ok(NpFloat(0, 0)) ELSE Ok(AvgDaily(f))
               [] expr = "series" ->
                    Ok(Series([i \in 1..Len(f.rows) |-> i - 1],
                              [i \in 1..Len(f.rows) |->
                                  f.rows[i][ColIndex(f, "sales")]],
                              Some("sales")))
               [] expr = "none" -> Ok(PyNone)
               [] expr = "one" -> Ok(PyInt(1))
               [] expr = "nonempty" -> Ok(PyBool(Len(f.rows) > 0))
               [] expr = "text" -> Ok(PyStr("ok"))

\* one statement, run in globals ns against the dataset data
ExecStmt(st, ns, data) ==
    LET unbound == st.uses \ Resolvable(ns)
        keep(n, d) == [ns |-> n, data |-> d, exc |-> None]
        fail(e) == [ns |-> ns, data |-> data, exc |-> Some(e)]
        \* rebind the frame the target names: in place for the dataset
        store(frame) ==
            IF IsRef(ns[st.target]) THEN keep(ns, frame)
            ELSE keep(Bind(ns, st.target, frame), data)
    IN  IF unbound # {}
        THEN fail(<<"NameError", CHOOSE n \in unbound : TRUE>>)
        ELSE CASE st.op = "assign" ->
                    LET r == Eval(st.expr, ns, data)
                    IN  IF r.ok THEN keep(Bind(ns, st.target, r.val), data)
                        ELSE fail(<<r.exc, r.arg>>)
               [] st.op = "setcol" ->
                    LET f == Deref(ns[st.target], data)
                    IN  IF st.expr = "zero" THEN store(SetColumn(f, st.col, Num(0)))
                        ELSE store(AsTypeStr(f, st.col))
               [] st.op = "delcol" ->
                    LET f == Deref(ns[st.target], data)
                        kept == SelectSeq([j \in 1..Len(f.columns) |-> j],
                                          LAMBDA j : f.columns[j] # st.col)
                    IN  IF ~HasCol(f, st.col) THEN fail(<<"KeyError", st.col>>)
                        ELSE store(Frame([j \in 1..Len(kept) |-> f.columns[kept[j]]],
                                         [i \in 1..Len(f.rows) |->
                                             [j \in 1..Len(kept) |-> f.rows[i][kept[j]]]]))
               [] st.op = "droprows" ->
                    store(Frame(Deref(ns[st.target], data).columns, <<>>))

\* the statements from the k-th on, stopping at the first exception
RECURSIVE RunFrom(_, _, _, _)
RunFrom(stmts, k, ns, data) ==
    IF k > Len(stmts) THEN [ns |-> ns, data |-> data, exc |-> None]
    ELSE LET r == ExecStmt(stmts[k], ns, data)
         IN  IF r.exc # None THEN r ELSE RunFrom(stmts, k + 1, r.ns, r.data)

\* code the remote model may answer with
remote_zero     == <<"d","f","[","\"","s","a","l","e","s","\"","]"," ","="," ","0","\n","r","e","s","u","l","t"," ","="," ","d","f">>
remote_del      == <<"d","e","l"," ","d","f","[","\"","s","a","l","e","s","\"","]","\n","r","e","s","u","l","t"," ","="," ","d","f",".","h","e","a","d","(","1","0",")">>
remote_drop     == <<"d","f",".","d","r","o","p","(","d","f",".","i","n","d","e","x",","," ","i","n","p","l","a","c","e","=","T","r","u","e",")","\n","r","e","s","u","l","t"," ","="," ","l","e","n","(","d","f",")">>
remote_noresult == <<"x"," ","="," ","1">>
remote_nosuch   == <<"x"," ","="," ","d","f","[","\"","n","o","s","u","c","h","\"","]">>
remote_series   == <<"r","e","s","u","l","t"," ","="," ","d","f","[","\"","s","a","l","e","s","\"","]">>
remote_count    == <<"r","e","s","u","l","t"," ","="," ","d","f","[","\"","s","a","l","e","s","\"","]",".","c","o","u","n","t","(",")">>
remote_none     == <<"r","e","s","u","l","t"," ","="," ","N","o","n","e">>
remote_bool     == <<"r","e","s","u","l","t"," ","="," ","l","e","n","(","d","f",")"," ",">"," ","0">>
remote_str      == <<"r","e","s","u","l","t"," ","="," ","\"","o","k","\"">>
remote_numpy    == <<"r","e","s","u","l","t"," ","="," ","n","p",".","s","u","m","(","d","f","[","\"","s","a","l","e","s","\"","]",")">>
remote_open     == <<"r","e","s","u","l","t"," ","="," ","o","p","e","n","(","\"","s","a","l","e","s",".","c","s","v","\"",")",".","r","e","a","d","(",")">>
remote_OPEN     == <<"r","e","s","u","l","t"," ","="," ","d","f"," ","i","f"," ","T","r","u","e"," ","e","l","s","e"," ","O","P","E","N"," ","(","\"","s","a","l","e","s",".","c","s","v","\"",")">>

\* what each piece of code does when Python runs it
Statements(text) ==
    CASE text = code_by_region -> <<Assign("result", "by_region_sum", {"df"})>>
      [] text = code_by_month ->
            <<Assign("result", "by_month", {"df"}),
              SetCol("result", "date", "astype_str", {"result", "str"})>>
      [] text = code_avg_region -> <<Assign("result", "by_region_mean", {"df"})>>
      [] text = code_top -> <<Assign("result", "nlargest", {"df"})>>
      [] text = code_july -> <<Assign("result", "july", {"df"})>>
      [] text = code_2023 -> <<Assign("result", "y2023", {"df"})>>
      [] text = code_total -> <<Assign("result", "sum", {"df"})>>
      [] text = code_count -> <<Assign("result", "len", {"len", "df"})>>
      [] text = code_avg_daily -> <<Assign("result", "avg_daily", {"df"})>>
      [] text = code_default -> <<Assign("result", "head", {"df"})>>
      [] text = remote_zero ->
            <<SetCol("df", "sales", "zero", {"df"}), Assign("result", "df", {"df"})>>
      [] text = remote_del ->
            <<DelCol("df", "sales", {"df"}), Assign("result", "head", {"df"})>>
      [] text = remote_drop ->
            <<DropRows("df", {"df"}), Assign("result", "len", {"len", "df"})>>
      [] text = remote_noresult -> <<Assign("x", "one", {})>>
      [] text = remote_nosuch -> <<Assign("x", "nosuch", {"df"})>>
      [] text = remote_series -> <<Assign("result", "series", {"df"})>>
      [] text = remote_count -> <<Assign("result", "count", {"df"})>>
      [] text = remote_none -> <<Assign("result", "none", {})>>
      [] text = remote_bool -> <<Assign("result", "nonempty", {"len", "df"})>>
      [] text = remote_str -> <<Assign("result", "text", {})>>
      [] text = remote_numpy -> <<Assign("result", "sum", {"np", "df"})>>
      [] text = remote_open -> <<Assign("result", "text", {"open"})>>
      [] text = remote_OPEN -> <<Assign("result", "df", {"df"})>>

-----------------------------------------------------------------------------
(* app.py: execute_pandas_code, conversion of result *)

\* the classes isinstance finds a value to be an instance of
Classes(v) ==
    CASE v.t = "bool" -> {"bool", "int"}
      [] v.t = "numpy.float64" -> {"numpy.float64", "float"}
      [] OTHER -> {v.t}

isinstance(v, classes) == Classes(v) \cap classes # {}

\* DataFrame.to_dict('records'): one mapping per row, in row order
to_dict_records(f) ==
    [i \in 1..Len(f.rows) |->
        [c \in {f.columns[j] : j \in 1..Len(f.columns)} |->
            f.rows[i][ColIndex(f, c)]]]

\* Series.to_dict(): index label -> value
series_to_dict(sr) ==
    [key \in {sr.index[i] : i \in 1..Len(sr.index)} |->
        sr.values[CHOOSE i \in 1..Len(sr.index) :
                      /\ sr.index[i] = key
                      /\ \A j \in (i + 1)..Len(sr.index) : sr.index[j] # key]]

\* str(result) for the values that are neither frame, series nor scalar
str(v) ==
    CASE v.t = "NoneType" -> <<"N","o","n","e">>
      [] v.t = "numpy.int64" -> Digits(v.n)

\* lines 85-106: the dict returned for the value bound to result
convert(value, data) ==
    IF isinstance(value, {"DataFrame"})
    THEN [type |-> "dataframe",
          data |-> to_dict_records(Deref(value, data)),
          columns |-> Deref(value, data).columns]
    ELSE IF isinstance(value, {"Series"})
    THEN [type |-> "series", data |-> series_to_dict(value), name |-> value.name]
    ELSE IF isinstance(value, {"int", "float", "str", "bool"})
    THEN [type |-> "scalar", data |-> value]
    ELSE [type |-> "other", data |-> str(value)]

-----------------------------------------------------------------------------
(* openai_service.py: generate_pandas_code *)

\* what the single call of openai.chat.completions.create comes back with:
\* an exception, or a message whose content is None or a text that
\* json.loads parses, or fails to parse
CallRaises == [kind |-> "raise"]
Content(c) == [kind |-> "content", content |-> c]
Malformed == [json |-> "malformed"]
Object(fields) == [json |-> "object", fields |-> fields]

remote_codes ==
    {remote_zero, remote_del, remote_drop, remote_noresult, remote_nosuch,
     remote_series, remote_count, remote_none, remote_bool, remote_str,
     remote_numpy, remote_open, remote_OPEN,
     code_default, code_by_region}

RemoteOutcomes ==
    {CallRaises, Content(None), Content(Some(Malformed)),
     Content(Some(Object([answer |-> Some(code_default)]))),
     Content(Some(Object([code |-> None])))}
    \cup {Content(Some(Object([code |-> Some(c)]))) : c \in remote_codes}

\* lines 105-106: no remote call without a client and a key
NoCall == [kind |-> "none"]

\* an except clause that reports the failure instead of falling back
generate_pandas_code_no_fallback(q, is_configured, outcome) ==
    IF ~is_configured THEN parse_query_locally(q)
    ELSE IF outcome.kind = "raise"
    THEN [code |-> None, error |-> Some(<<"OpenAI request failed">>)]
    ELSE IF outcome.content = None
    THEN [code |-> None, error |-> Some(<<"OpenAI response content is empty">>)]
    ELSE IF outcome.content.val.json = "malformed"
    THEN [code |-> None, error |-> Some(<<"OpenAI request failed">>)]
    ELSE IF "code" \notin DOMAIN outcome.content.val.fields
    THEN [code |-> None,
          error |-> Some(<<"OpenAI response does not contain 'code' field">>)]
    ELSE [code |-> outcome.content.val.fields.code, error |-> None]

generate_pandas_code(q, is_configured, outcome) ==
    IF ~is_configured THEN parse_query_locally(q)
    ELSE IF outcome.kind = "raise" THEN parse_query_locally(q)
    ELSE IF outcome.content = None
    THEN [code |-> None, error |-> Some(<<"OpenAI response content is empty">>)]
    ELSE IF outcome.content.val.json = "malformed" THEN parse_query_locally(q)
    ELSE IF "code" \notin DOMAIN outcome.content.val.fields
    THEN [code |-> None,
          error |-> Some(<<"OpenAI response does not contain 'code' field">>)]
    ELSE [code |-> outcome.content.val.fields.code, error |-> None]

-----------------------------------------------------------------------------
(* app.py: the /ask handler, one request at a time *)

MaxAskWords == 2

ask_words == << <<"t","o","t","a","l">>, <<"s","a","l","e","s">>, <<"c","o","u","n","t">>, <<"o","p","e","n","(">>, <<" ">> >>

\* the texts made of at most n of the words, separated by blanks
RECURSIVE Phrases(_, _)
Phrases(words, n) ==
    IF n = 0 THEN {<<>>}
    ELSE LET shorter == Phrases(words, n - 1)
         IN  shorter \cup
             {(IF p = <<>> THEN <<>> ELSE p \o <<" ">>) \o words[i] :
                  p \in shorter, i \in 1..Len(words)}

\* request.get_json(): nothing usable, or a body with a 'query' text
Requests == {None} \cup {Some(q) : q \in Phrases(ask_words, MaxAskWords)}

NoNames == [n \in {} |-> PyNone]

Reply(status, body) == Some([status |-> status, body |-> body])
ErrorBody(msg) == [error |-> msg]

unsafe_message == <<"Generated code contains unsafe operations">>
no_result_message == <<"Generated code did not produce a 'result' variable">>

\* a guard that lets every text through
rejected_never(text) == FALSE

\* line 66: the guard of execute_pandas_code
rejected(text) == ~is_safe_code(text)

\* a globals dict that also binds the os module
restricted_namespace_with_os ==
    [n \in {"df", "pd", "datetime", "os"} |->
        CASE n = "df" -> DatasetRef
          [] n = "pd" -> Module("pandas")
          [] n = "datetime" -> Module("datetime")
          [] n = "os" -> Module("os")]

\* a globals dict that binds result to None beforehand
restricted_namespace_with_result ==
    [n \in {"df", "pd", "datetime", "result"} |->
        CASE n = "df" -> DatasetRef
          [] n = "pd" -> Module("pandas")
          [] n = "datetime" -> Module("datetime")
          [] n = "result" -> PyNone]

\* lines 71-75: the globals dict handed to exec
restricted_namespace ==
    [n \in {"df", "pd", "datetime"} |->
        CASE n = "df" -> DatasetRef
          [] n = "pd" -> Module("pandas")
          [] n = "datetime" -> Module("datetime")]

\* line 81: 'result' in namespace
produced(ns) == "result" \in DOMAIN ns

\* exec() adds the builtins module to a globals dict that lacks it
with_builtins(ns) == Bind(ns, "__builtins__", Module("builtins"))

Init ==
    /\ configured \in BOOLEAN
    /\ sales_data \in {Some(LoadedData), None}
    /\ loaded = sales_data
    /\ pc = "idle"
    /\ request = None
    /\ query = None
    /\ code = None
    /\ error = None
    /\ remote = None
    /\ safe = None
    /\ namespace = NoNames
    /\ executed = None
    /\ raised = None
    /\ result = None
    /\ exec_error = None
    /\ response = None

\* lines 124-133
Receive(req) ==
    /\ pc = "idle"
    /\ request' = Some(req)
    /\ IF req = None
       THEN /\ response' = Reply(400, ErrorBody(<<"No query provided">>))
            /\ pc' = "done"
            /\ query' = None
       ELSE IF Strip(req.val) = <<>>
       THEN /\ response' = Reply(400, ErrorBody(<<"Empty query provided">>))
            /\ pc' = "done"
            /\ query' = Some(<<>>)
       ELSE IF sales_data = None
       THEN /\ response' = Reply(500, ErrorBody(<<"Sales data not available">>))
            /\ pc' = "done"
            /\ query' = Some(Strip(req.val))
       ELSE /\ response' = None
            /\ pc' = "generate"
            /\ query' = Some(Strip(req.val))
    /\ UNCHANGED <<configured, sales_data, loaded, code, error, remote, safe,
                   namespace, executed, raised, result, exec_error>>

\* lines 138-141
Generate(outcome) ==
    /\ pc = "generate"
    /\ LET g == generate_pandas_code(query.val, configured, outcome)
       IN  /\ code' = g.code
           /\ error' = g.error
           /\ IF g.error # None
              THEN /\ response' = Reply(500, ErrorBody(<<"Failed to generate code: ">>
                                                       \o g.error.val))
                   /\ pc' = "done"
              ELSE /\ response' = None
                   /\ pc' = "validate"
    /\ remote' = Some(outcome)
    /\ UNCHANGED <<configured, sales_data, loaded, request, query, safe,
                   namespace, executed, raised, result, exec_error>>

\* line 146 into execute_pandas_code, lines 66-75
Validate ==
    /\ pc = "validate"
    /\ IF code = None
       THEN \* re.search raises TypeError, caught at line 159
            /\ safe' = None
            /\ exec_error' = None
            /\ namespace' = namespace
            /\ response' = Reply(500, ErrorBody(<<"Internal server error">>))
            /\ pc' = "done"
       ELSE /\ safe' = Some(is_safe_code(code.val))
            /\ IF rejected(code.val)
               THEN /\ exec_error' = Some(unsafe_message)
                    /\ namespace' = namespace
                    /\ response' = Reply(500, ErrorBody(unsafe_message))
                    /\ pc' = "done"
               ELSE /\ exec_error' = None
                    /\ namespace' = restricted_namespace
                    /\ response' = None
                    /\ pc' = "exec"
    /\ UNCHANGED <<configured, sales_data, loaded, request, query, code, error,
                   remote, executed, raised, result>>

\* line 78: exec is entered
ExecEnter ==
    /\ pc = "exec"
    /\ namespace' = with_builtins(namespace)
    /\ executed' = code
    /\ pc' = "running"
    /\ UNCHANGED <<configured, sales_data, loaded, request, query, code, error,
                   remote, safe, raised, result, exec_error, response>>

\* line 78: the code runs; lines 80-111 and 148-157
ExecRun ==
    /\ pc = "running"
    /\ LET r == RunFrom(Statements(code.val), 1, namespace, sales_data.val)
       IN  /\ namespace' = r.ns
           /\ sales_data' = Some(r.data)
           /\ raised' = r.exc
           /\ IF r.exc # None
              THEN /\ result' = None
                   /\ exec_error' = Some(<<"Error executing code: ">> \o r.exc.val)
              ELSE IF produced(r.ns)
              THEN /\ result' = Some(convert(r.ns["result"], r.data))
                   /\ exec_error' = None
              ELSE /\ result' = None
                   /\ exec_error' = Some(no_result_message)
    /\ response' =
          IF exec_error' # None THEN Reply(500, ErrorBody(exec_error'.val))
          ELSE Reply(200, [success |-> TRUE, result |-> result'.val,
                           generated_code |-> code.val, query |-> query.val])
    /\ pc' = "done"
    /\ UNCHANGED <<configured, loaded, request, query, code, error, remote,
                   safe, executed>>

\* the response is sent; the worker takes the next request
Finish ==
    /\ pc = "done"
    /\ pc' = "idle"
    /\ request' = None
    /\ query' = None
    /\ code' = None
    /\ error' = None
    /\ remote' = None
    /\ safe' = None
    /\ namespace' = NoNames
    /\ executed' = None
    /\ raised' = None
    /\ result' = None
    /\ exec_error' = None
    /\ response' = None
    /\ UNCHANGED <<configured, sales_data, loaded>>

Next ==
    \/ \E req \in Requests : Receive(req)
    \/ \E outcome \in (IF configured THEN RemoteOutcomes ELSE {NoCall}) :
           Generate(outcome)
    \/ Validate
    \/ ExecEnter
    \/ ExecRun
    \/ Finish

Spec == Init /\ [][Next]_vars

-----------------------------------------------------------------------------
(* is_safe_code on its own, over texts put together from fragments *)

MaxParts == 3

code_parts ==
    << <<"i","m","p","o","r","t">>, <<"f","r","o","m">>, <<" ">>, <<"p","a","n","d","a","s">>, <<"p","a","n","d","a","s","q","l">>, <<"s","y","s">>, <<"d","f">>,
       <<"(">>, <<".">>, <<"O","p","e","n">>, <<"e","x","e","c">>, <<"e","v","a","l">>, <<"_","_","i","m","p","o","r","t","_","_">>,
       <<"g","e","t","a","t","t","r">>, <<"s","e","t","a","t","t","r">>, <<"d","e","l","a","t","t","r">>, <<"g","l","o","b","a","l","s">>, <<"l","o","c","a","l","s">>,
       <<"d","i","r">>, <<"v","a","r","s">>, <<"s","y","s","t","e","m">>, <<"o","s">>, <<"s","u","b","p","r","o","c","e","s","s">>, <<"s","h","u","t","i","l">>,
       <<"P","I","C","K","L","E">> >>

\* the texts made by writing at most n of the fragments one after another
RECURSIVE Texts(_, _)
Texts(parts, n) ==
    IF n = 0 THEN {<<>>}
    ELSE LET shorter == Texts(parts, n - 1)
         IN  shorter \cup {p \o parts[i] : p \in shorter, i \in 1..Len(parts)}

IdleBut(p, q, c) ==
    /\ configured = FALSE
    /\ sales_data = Some(LoadedData)
    /\ loaded = sales_data
    /\ pc = p
    /\ request = None
    /\ query = q
    /\ code = c
    /\ error = None
    /\ remote = None
    /\ safe = None
    /\ namespace = NoNames
    /\ executed = None
    /\ raised = None
    /\ result = None
    /\ exec_error = None
    /\ response = None

InitValidator ==
    \E text \in Texts(code_parts, MaxParts) : IdleBut("check", None, Some(text))

CheckCode ==
    /\ pc = "check"
    /\ safe' = Some(is_safe_code(code.val))
    /\ pc' = "checked"
    /\ UNCHANGED <<configured, sales_data, loaded, request, query, code, error,
                   remote, namespace, executed, raised, result, exec_error,
                   response>>

NextValidator == CheckCode

SpecValidator == InitValidator /\ [][NextValidator]_vars

-----------------------------------------------------------------------------
(* parse_query_locally on its own, over queries put together from words *)

MaxWords == 3

query_words ==
    << <<"s","a","l","e","s">>, <<"b","y">>, <<"r","e","g","i","o","n">>, <<"m","o","n","t","h">>, <<"a","v","e","r","a","g","e">>, <<"t","o","p">>,
       <<"h","i","g","h","e","s","t">>, <<"j","u","l","y">>, <<"2","0","2","3">>, <<"t","o","t","a","l">>, <<"t","r","e","n","d">>, <<"c","o","u","n","t">>,
       <<"r","e","c","o","r","d","s">>, <<"d","a","i","l","y">>, <<"S","A","L","E","S">>, <<"o","p","e","n","(">> >>

InitTranslate ==
    \E q \in Phrases(query_words, MaxWords) : IdleBut("translate", Some(q), None)

Translate ==
    /\ pc = "translate"
    /\ LET r == parse_query_locally(query.val)
       IN  /\ code' = r.code
           /\ error' = r.error
    /\ pc' = "translated"
    /\ UNCHANGED <<configured, sales_data, loaded, request, query, remote, safe,
                   namespace, executed, raised, result, exec_error, response>>

NextTranslate == Translate

SpecTranslate == InitTranslate /\ [][NextTranslate]_vars

-----------------------------------------------------------------------------
(* Properties *)

UnsafeReply == Reply(500, ErrorBody(unsafe_message))

\* C1: code is handed to exec only after is_safe_code accepted that same
\* code; rejected code is never executed and the request ends with the
\* validation error.
ValidatedBeforeExecuted ==
    /\ pc \in {"running"} => executed # None
    /\ executed # None =>
          /\ executed = code
          /\ safe = Some(TRUE)
          /\ is_safe_code(executed.val)
    /\ safe = Some(FALSE) =>
          /\ executed = None
          /\ result = None
          /\ pc = "done"
          /\ response = UnsafeReply

\* an accepted answer of the remote model has been executed
RemoteCodeExecuted ==
    /\ pc = "done"
    /\ configured
    /\ remote = Some(Content(Some(Object([code |-> Some(remote_series)]))))
    /\ executed = Some(remote_series)
    /\ safe = Some(TRUE)

ThreeNames == {"df", "pd", "datetime"}

\* C3 as stated: when the code starts running, df, pd and datetime are the
\* only names it can resolve.
OnlyThreeNamesResolvable ==
    pc = "running" => Resolvable(namespace) = ThreeNames

\* C3: the namespace is built with df, pd and datetime only; when the code
\* starts running exec has added __builtins__, so these four names and the
\* names of the built-in functions are resolvable, and no others.
ThreeNamesAndBuiltinsResolvable ==
    pc = "running" =>
        /\ DOMAIN namespace = ThreeNames \cup {"__builtins__"}
        /\ Resolvable(namespace) = ThreeNames \cup {"__builtins__"} \cup builtin_names
        /\ namespace["df"] = DatasetRef
        /\ namespace["pd"] = Module("pandas")
        /\ namespace["datetime"] = Module("datetime")

\* the count-records code, which calls the built-in len, is about to run
BuiltinUserRunning ==
    /\ pc = "running"
    /\ code = Some(code_count)
    /\ "len" \in Resolvable(namespace)

\* C4: the dataset is the one that was loaded, whatever requests were served.
DatasetNeverMutated == sales_data = loaded

\* the outcomes of the remote attempt that are failures
IsFailure(o) ==
    \/ o.kind = "raise"
    \/ /\ o.kind = "content"
       /\ \/ o.content = None
          \/ o.content.val.json = "malformed"
          \/ /\ o.content.val.json = "object"
             /\ "code" \notin DOMAIN o.content.val.fields

Raised(o) ==
    \/ o.kind = "raise"
    \/ o.kind = "content" /\ o.content # None /\ o.content.val.json = "malformed"

Generated == configured /\ remote # None /\ pc \in {"validate", "exec", "running", "done"}

\* the expression the keyword counts select: the first entry with the
\* greatest count when that count is positive, the preview otherwise
Count(k, ql) ==
    Cardinality({j \in 1..Len(patterns[k].keywords) :
                     Contains(ql, patterns[k].keywords[j])})

\* the keyword count of every entry, in catalog order
Counts(q) == [k \in 1..Len(patterns) |-> Count(k, Strip(Lower(q)))]

Selected(q) ==
    LET cnt == Counts(q)
        top == CHOOSE m \in 0..3 :
                   /\ \A k \in 1..Len(patterns) : cnt[k] <= m
                   /\ m = 0 \/ \E k \in 1..Len(patterns) : cnt[k] = m
    IN  IF top = 0 THEN code_default
        ELSE patterns[CHOOSE k \in 1..Len(patterns) :
                          /\ cnt[k] = top
                          /\ \A j \in 1..(k - 1) : cnt[j] < top].code

\* C5 as stated: every failure of the remote attempt is answered with the
\* local translator's expression and no error, so no request ends in a
\* generation failure.
EveryRemoteFailureFallsBack ==
    /\ (Generated /\ IsFailure(remote.val)) =>
          /\ code = Some(Selected(query.val))
          /\ error = None
    /\ Generated => code # None
    /\ (pc = "done" /\ response # None /\ remote # None) => error = None

\* C5: one remote attempt; when it raises (transport error, malformed JSON)
\* the local translator's expression is returned with no error; when the
\* content is empty or the 'code' field is missing, no code is returned but
\* an error, which /ask reports as a generation failure without validating
\* or executing anything.
RaisedRemoteFailureFallsBack ==
    /\ (Generated /\ Raised(remote.val)) =>
          /\ code = Some(Selected(query.val))
          /\ error = None
    /\ (Generated /\ IsFailure(remote.val) /\ ~Raised(remote.val)) =>
          /\ code = None
          /\ error = Some(IF remote.val.content = None
                          THEN <<"OpenAI response content is empty">>
                          ELSE <<"OpenAI response does not contain 'code' field">>)
          /\ pc = "done"
          /\ response = Reply(500, ErrorBody(<<"Failed to generate code: ">> \o error.val))
          /\ safe = None
          /\ executed = None

\* malformed JSON from the remote model was replaced by the local expression
MalformedAnswerFellBack ==
    /\ configured
    /\ pc = "validate"
    /\ remote = Some(Content(Some(Malformed)))
    /\ code = Some(code_total)

\* the code ran to its end and bound result
RanAndProduced ==
    /\ pc = "done"
    /\ executed # None
    /\ raised = None
    /\ "result" \in DOMAIN namespace

\* the types of primitive numbers, texts and booleans
PrimitiveTypes ==
    {"int", "float", "str", "bool", "numpy.int64", "numpy.float64", "numpy.bool_"}

\* C7: the outcome is the one variant the value bound to result calls for:
\* a frame gives the table with the frame's rows in order and its columns,
\* a series gives the series, a primitive number, text or boolean gives the
\* scalar, and only other values give the text rendering.
OutcomeMatchesValue ==
    RanAndProduced =>
        LET v == namespace["result"]
            f == Deref(v, sales_data.val)
            out == result.val
        IN  /\ result # None
            /\ out.type \in {"dataframe", "series", "scalar", "other"}
            /\ v.t = "DataFrame" =>
                  /\ out.type = "dataframe"
                  /\ Len(out.data) = Len(f.rows)
                  /\ \A i \in 1..Len(f.rows) : \A j \in 1..Len(f.columns) :
                         out.data[i][f.columns[j]] = f.rows[i][j]
                  /\ out.columns = f.columns
            /\ v.t = "Series" =>
                  /\ out.type = "series"
                  /\ out.name = v.name
                  /\ \A i \in 1..Len(v.index) : out.data[v.index[i]] = v.values[i]
            /\ v.t \in PrimitiveTypes => (out.type = "scalar" /\ out.data = v)
            /\ out.type = "other" => v.t \notin {"DataFrame", "Series"} \cup PrimitiveTypes

\* the code has a statement that assigns to result
AssignsResult(text) ==
    \E k \in 1..Len(Statements(text)) :
        /\ Statements(text)[k].op = "assign"
        /\ Statements(text)[k].target = "result"

RanWithoutAssigning ==
    /\ pc = "done"
    /\ executed # None
    /\ ~AssignsResult(executed.val)

\* C8 as stated: accepted code that does not assign to result always gets
\* the missing-result error.
NoAssignmentIsMissingResult ==
    RanWithoutAssigning =>
        /\ result = None
        /\ exec_error = Some(no_result_message)
        /\ response = Reply(500, ErrorBody(no_result_message))

\* C8: accepted code that does not assign to result and runs without
\* raising gets the missing-result error, which differs from the validation
\* and the execution error; when it raises it gets the execution error;
\* it never gets a success.
NoAssignmentIsMissingResultUnlessRaised ==
    RanWithoutAssigning =>
        /\ result = None
        /\ response # None
        /\ response.val.status = 500
        /\ "success" \notin DOMAIN response.val.body
        /\ IF raised = None
           THEN /\ exec_error = Some(no_result_message)
                /\ response = Reply(500, ErrorBody(no_result_message))
                /\ no_result_message # unsafe_message
                /\ no_result_message[1] # "Error executing code: "
           ELSE /\ exec_error = Some(<<"Error executing code: ">> \o raised.val)
                /\ response = Reply(500, ErrorBody(exec_error.val))

\* code without an assignment to result ran to its end
MissingResultReported ==
    /\ pc = "done"
    /\ executed = Some(remote_noresult)
    /\ raised = None
    /\ exec_error = Some(no_result_message)

open_call == <<"o","p","e","n","(">>

\* C9 as stated: a request whose query contains open( ends in the validation
\* error and nothing is executed (checked for the requests that got an
\* expression from either generator).
OpenInQueryIsRejected ==
    (pc = "done" /\ code # None /\ Contains(query.val, open_call)) =>
        /\ response = UnsafeReply
        /\ executed = None

\* C9: a request whose generated expression contains open( ends in the
\* validation error and nothing is executed.
OpenInCodeIsRejected ==
    (code # None /\ Contains(code.val, open_call)) =>
        /\ executed = None
        /\ pc \in {"validate", "done"}
        /\ pc = "done" => (response = UnsafeReply /\ result = None)

\* the remote model answered with code that opens a file; it was rejected
OpenCallRejected ==
    /\ pc = "done"
    /\ code = Some(remote_open)
    /\ safe = Some(FALSE)
    /\ response = UnsafeReply

\* the verdict on the text under test
Checked == pc = "checked"

LiteralTokens ==
    { <<"o","p","e","n","(">>, <<"e","x","e","c","(">>, <<"e","v","a","l","(">>, <<"_","_","i","m","p","o","r","t","_","_">>, <<"g","e","t","a","t","t","r">>,
      <<"s","e","t","a","t","t","r">>, <<"d","e","l","a","t","t","r">>, <<"g","l","o","b","a","l","s","(">>, <<"l","o","c","a","l","s","(">>, <<"d","i","r","(">>,
      <<"v","a","r","s","(">>, <<".","s","y","s","t","e","m">>, <<"o","s",".">>, <<"s","u","b","p","r","o","c","e","s","s">>, <<"s","h","u","t","i","l">>,
      <<"p","i","c","k","l","e">> }

LiteralNames ==
    { <<"i","m","p","o","r","t">>, <<"f","r","o","m">>, <<"o","p","e","n">>, <<"e","x","e","c">>, <<"e","v","a","l">>, <<"_","_","i","m","p","o","r","t","_","_">>,
      <<"g","e","t","a","t","t","r">>, <<"s","e","t","a","t","t","r">>, <<"d","e","l","a","t","t","r">>, <<"g","l","o","b","a","l","s">>, <<"l","o","c","a","l","s">>,
      <<"d","i","r">>, <<"v","a","r","s">>, <<".","s","y","s","t","e","m">>, <<"o","s",".">>, <<"s","u","b","p","r","o","c","e","s","s">>, <<"s","h","u","t","i","l">>,
      <<"p","i","c","k","l","e">> }

IdentChars ==
    {LowerLetters[i] : i \in 1..Len(LowerLetters)} \cup
    {"_", "0", "1", "2", "3", "4", "5", "6", "7", "8", "9"}

\* the identifier that starts at position p of low
NameAt(low, p) ==
    LET last == CHOOSE e \in (p - 1)..Len(low) :
                    /\ \A j \in p..e : low[j] \in IdentChars
                    /\ e = Len(low) \/ low[e + 1] \notin IdentChars
    IN  SubSeq(low, p, last)

\* the keyword (import or from), blanks, and then the name of a module that
\* is not pandas, numpy or datetime
NamesOtherModule(keyword, low) ==
    \E i \in 1..Len(low) : \E k \in 1..Len(low) :
        LET p == i + Len(keyword)
        IN  /\ OccursAt(keyword, low, i)
            /\ WsRun(low, p, k)
            /\ p + k <= Len(low)
            /\ low[p + k] \in IdentChars
            /\ \A m \in 1..Len(allowed_modules) :
                   NameAt(low, p + k) # allowed_modules[m]

Denylisted(text) ==
    LET low == Lower(text)
    IN  \/ \E tok \in LiteralTokens : Contains(low, tok)
        \/ NamesOtherModule(<<"i","m","p","o","r","t">>, low)
        \/ NamesOtherModule(<<"f","r","o","m">>, low)

\* C2: a text with a denylisted construct anywhere in it, in any letter
\* case, is rejected; a text with none of the denylisted words is accepted.
DenylistedIffRejected ==
    Checked =>
        /\ Denylisted(code.val) => safe = Some(FALSE)
        /\ (\A w \in LiteralNames : ~Contains(Lower(code.val), w)) => safe = Some(TRUE)

Translated == pc = "translated"

\* every keyword of the k-th entry occurs in the lower-cased query
Full(k, cnt) == cnt[k] = Len(patterns[k].keywords)

OnlyFull(k, cnt) ==
    /\ Full(k, cnt)
    /\ \A j \in 1..Len(patterns) : j # k => ~Full(j, cnt)

\* C6 as stated: when the query has all the keywords of exactly one entry,
\* the translator returns that entry's expression.
OnlyFullEntryWins ==
    Translated =>
        LET cnt == Counts(query.val)
        IN  \A k \in 1..Len(patterns) :
                OnlyFull(k, cnt) => code = Some(patterns[k].code)

\* no earlier entry has as many keywords in the query as entry k has, and no
\* later entry has more
NotOutscored(k, cnt) ==
    /\ \A j \in 1..(k - 1) : cnt[j] < cnt[k]
    /\ \A j \in (k + 1)..Len(patterns) : cnt[j] <= cnt[k]

\* C6: when the query has all the keywords of exactly one entry, the
\* translator returns that entry's expression provided no earlier entry has
\* as many of its keywords in the query and no later entry has more.
OnlyFullEntryWinsUnlessOutscored ==
    Translated =>
        LET cnt == Counts(query.val)
        IN  \A k \in 1..Len(patterns) :
                (OnlyFull(k, cnt) /\ NotOutscored(k, cnt)) =>
                    /\ code = Some(patterns[k].code)
                    /\ error = None

\* total sales daily: entry 7 is the only full one, entry 10 has two of its
\* three keywords, and entry 7 is returned
FullEntryBeatsPartialOnes ==
    /\ Translated
    /\ LET cnt == Counts(query.val)
       IN  /\ OnlyFull(7, cnt)
           /\ NotOutscored(7, cnt)
           /\ cnt[10] = 2
    /\ code = Some(code_total)

\* C10: the translator returns, with no error, the expression of the first
\* entry whose keyword count is the greatest, when that count is positive,
\* and the preview expression when every count is 0.
FirstBestEntryOrDefault ==
    Translated =>
        /\ error = None
        /\ code = Some(Selected(query.val))

\* two entries tie on the greatest count and the earlier one is returned
TieGoesToFirst ==
    /\ Translated
    /\ LET cnt == Counts(query.val)
       IN  /\ cnt[1] = 2
           /\ cnt[2] = 2
           /\ \A k \in 1..Len(patterns) : cnt[k] <= 2
    /\ code = Some(code_by_region)

=============================================================================
